---- MODULE Spec2Model ----
(***************************************************************************)
(* Model of Other/analyze_dependencies.py: the report of explicitly        *)
(* installed packages that are also dependencies of other explicitly       *)
(* installed packages.                                                     *)
(*                                                                         *)
(* Package names are strings; the string operations of the script (lower,  *)
(* strip, substring test, startswith, comparison) are computed character   *)
(* by character.  Spec is one run of the script; CatSpec applies           *)
(* categorize to a package name drawn from a bounded set of names.         *)
(*                                                                         *)
(* A run is: the pacman listing, one step per package of the for loop (in  *)
(* any order, as the loop iterates a set), the grouping loop, and the with *)
(* block that opens the output file and writes the report.  The progress   *)
(* messages printed to the terminal and the counter behind them are left   *)
(* out; the file either fails to open or is written in full.               *)
(***************************************************************************)
EXTENDS Integers, Sequences, FiniteSets, TLC

VARIABLES
    pc,                 \* position of the run in the script
    explicit_packages,  \* set of names parsed from `pacman -Qeq`
    status,             \* per package: position of the for loop (pending / outcome)
    dependency_map,     \* insertion-ordered dict: sequence of <<key, list>>
    categories,         \* category -> insertion-ordered dict of dep -> list
    opened,             \* OUTPUT_FILE has been opened for writing
    report,             \* lines written after the fixed comment block
    error,              \* which uncaught exception ended the run, if any
    discarded,          \* in the loop: the output just handled held a blank line or
                        \* the package itself
    name,               \* CatSpec: argument of categorize
    category            \* CatSpec: value returned by categorize

vars == <<pc, explicit_packages, status, dependency_map, categories, opened,
          report, error, discarded, name, category>>

cat_vars == <<name, category>>

(***************************************************************************)
(* Bounds of the model.                                                    *)
(***************************************************************************)
\* dependers listed after the header line of one pactree output
MaxDependers == 2
\* fragments concatenated into one package name given to categorize
MaxParts == 2

(***************************************************************************)
(* Python str operations.                                                  *)
(***************************************************************************)
UpperChars == "ABCDEFGHIJKLMNOPQRSTUVWXYZ"
LowerChars == "abcdefghijklmnopqrstuvwxyz"
\* the characters of the model in code point order
CodePoints == " -0123456789ABCDEFGHIJKLMNOPQRSTUVWXYZabcdefghijklmnopqrstuvwxyz"

CharAt(s, i) == SubSeq(s, i, i)

Chars == {CharAt(CodePoints, i) : i \in 1..Len(CodePoints)}

\* c.lower() of every character
LowerOf ==
    [c \in Chars |->
        IF \E i \in 1..Len(UpperChars) : CharAt(UpperChars, i) = c
        THEN CharAt(LowerChars, CHOOSE i \in 1..Len(UpperChars) : CharAt(UpperChars, i) = c)
        ELSE c]

\* the place of every character in code point order
OrdOf == [c \in Chars |-> CHOOSE i \in 1..Len(CodePoints) : CharAt(CodePoints, i) = c]

lower_char(c) == LowerOf[c]

RECURSIVE lower(_)
lower(s) == IF s = "" THEN "" ELSE lower_char(Head(s)) \o lower(Tail(s))

\* kw in s
contains(s, kw) ==
    \E i \in 0..(Len(s) - Len(kw)) : SubSeq(s, i + 1, i + Len(kw)) = kw

startswith(s, p) == Len(s) >= Len(p) /\ SubSeq(s, 1, Len(p)) = p

RECURSIVE lstrip(_)
lstrip(s) == IF s # "" /\ Head(s) = " " THEN lstrip(Tail(s)) ELSE s

RECURSIVE rstrip(_)
rstrip(s) ==
    IF s # "" /\ CharAt(s, Len(s)) = " " THEN rstrip(SubSeq(s, 1, Len(s) - 1)) ELSE s

strip(s) == rstrip(lstrip(s))

ord(c) == OrdOf[c]

\* a < b on str: lexicographic by code point
RECURSIVE str_lt(_, _)
str_lt(a, b) ==
    IF b = "" THEN FALSE
    ELSE IF a = "" THEN TRUE
    ELSE IF Head(a) = Head(b) THEN str_lt(Tail(a), Tail(b))
    ELSE ord(Head(a)) < ord(Head(b))

(***************************************************************************)
(* categorize                                                              *)
(***************************************************************************)
DevelopmentTools == {"git", "openssh", "rsync", "sudo", "which", "diffutils"}

\* a slip that evaluates the KDE test ahead of the others
categorize_kde_first(pkg) ==
    LET lowered == lower(pkg)  \* pkg.lower()
    IN
        IF contains(lowered, "kde") \/ contains(lowered, "kio")
           \/ contains(lowered, "plasma") THEN "KDE"
        ELSE IF contains(lowered, "python") \/ startswith(pkg, "python-") THEN "PYTHON"
        ELSE IF contains(lowered, "perl") THEN "PERL"
        ELSE IF pkg \in DevelopmentTools THEN "DEVELOPMENT_TOOLS"
        ELSE IF contains(lowered, "bluez") THEN "BLUETOOTH"
        ELSE IF contains(lowered, "pipewire") \/ contains(lowered, "alsa") THEN "AUDIO"
        ELSE IF contains(lowered, "device-mapper")
                \/ contains(lowered, "cryptsetup") THEN "STORAGE"
        ELSE IF contains(lowered, "xdg") \/ contains(lowered, "desktop") THEN "DESKTOP"
        ELSE IF contains(lowered, "gtk") \/ contains(lowered, "qt") THEN "GUI_LIBS"
        ELSE IF contains(lowered, "gnome-keyring") THEN "SECURITY"
        ELSE IF contains(lowered, "jdk") \/ contains(lowered, "java") THEN "JAVA"
        ELSE IF contains(lowered, "openxr") THEN "VR"
        ELSE IF contains(lowered, "e2fsprogs") \/ contains(lowered, "dosfstools")
                \/ contains(lowered, "mtools") THEN "FILESYSTEM"
        ELSE IF contains(lowered, "systemd") THEN "SYSTEM"
        ELSE IF contains(lowered, "texinfo") \/ contains(lowered, "hwinfo") THEN "SYSTEM_INFO"
        ELSE IF contains(lowered, "unzip") THEN "ARCHIVE"
        ELSE "OTHER"

\* a slip that drops .lower() from the substring tests
categorize_no_lower(pkg) ==
    IF contains(pkg, "python") \/ startswith(pkg, "python-") THEN "PYTHON"
    ELSE IF contains(pkg, "perl") THEN "PERL"
    ELSE IF pkg \in DevelopmentTools THEN "DEVELOPMENT_TOOLS"
    ELSE IF contains(pkg, "bluez") THEN "BLUETOOTH"
    ELSE IF contains(pkg, "pipewire") \/ contains(pkg, "alsa") THEN "AUDIO"
    ELSE IF contains(pkg, "device-mapper") \/ contains(pkg, "cryptsetup") THEN "STORAGE"
    ELSE IF contains(pkg, "xdg") \/ contains(pkg, "desktop") THEN "DESKTOP"
    ELSE IF contains(pkg, "kde") \/ contains(pkg, "kio") \/ contains(pkg, "plasma") THEN "KDE"
    ELSE IF contains(pkg, "gtk") \/ contains(pkg, "qt") THEN "GUI_LIBS"
    ELSE IF contains(pkg, "gnome-keyring") THEN "SECURITY"
    ELSE IF contains(pkg, "jdk") \/ contains(pkg, "java") THEN "JAVA"
    ELSE IF contains(pkg, "openxr") THEN "VR"
    ELSE IF contains(pkg, "e2fsprogs") \/ contains(pkg, "dosfstools")
            \/ contains(pkg, "mtools") THEN "FILESYSTEM"
    ELSE IF contains(pkg, "systemd") THEN "SYSTEM"
    ELSE IF contains(pkg, "texinfo") \/ contains(pkg, "hwinfo") THEN "SYSTEM_INFO"
    ELSE IF contains(pkg, "unzip") THEN "ARCHIVE"
    ELSE "OTHER"

categorize(pkg) ==
    LET lowered == lower(pkg)  \* pkg.lower()
    IN
        IF contains(lowered, "python") \/ startswith(pkg, "python-") THEN "PYTHON"
        ELSE IF contains(lowered, "perl") THEN "PERL"
        ELSE IF pkg \in DevelopmentTools THEN "DEVELOPMENT_TOOLS"
        ELSE IF contains(lowered, "bluez") THEN "BLUETOOTH"
        ELSE IF contains(lowered, "pipewire") \/ contains(lowered, "alsa") THEN "AUDIO"
        ELSE IF contains(lowered, "device-mapper")
                \/ contains(lowered, "cryptsetup") THEN "STORAGE"
        ELSE IF contains(lowered, "xdg") \/ contains(lowered, "desktop") THEN "DESKTOP"
        ELSE IF contains(lowered, "kde") \/ contains(lowered, "kio")
                \/ contains(lowered, "plasma") THEN "KDE"
        ELSE IF contains(lowered, "gtk") \/ contains(lowered, "qt") THEN "GUI_LIBS"
        ELSE IF contains(lowered, "gnome-keyring") THEN "SECURITY"
        ELSE IF contains(lowered, "jdk") \/ contains(lowered, "java") THEN "JAVA"
        ELSE IF contains(lowered, "openxr") THEN "VR"
        ELSE IF contains(lowered, "e2fsprogs") \/ contains(lowered, "dosfstools")
                \/ contains(lowered, "mtools") THEN "FILESYSTEM"
        ELSE IF contains(lowered, "systemd") THEN "SYSTEM"
        ELSE IF contains(lowered, "texinfo") \/ contains(lowered, "hwinfo") THEN "SYSTEM_INFO"
        ELSE IF contains(lowered, "unzip") THEN "ARCHIVE"
        ELSE "OTHER"

cat_order == <<"PYTHON", "PERL", "DEVELOPMENT_TOOLS", "BLUETOOTH", "AUDIO",
               "STORAGE", "DESKTOP", "KDE", "GUI_LIBS", "SECURITY", "JAVA",
               "VR", "FILESYSTEM", "SYSTEM", "SYSTEM_INFO", "ARCHIVE", "OTHER">>

(***************************************************************************)
(* Python list, set and dict operations.  A dict keeps insertion order: it *)
(* is a sequence of <<key, value>> pairs with distinct keys.               *)
(***************************************************************************)
Range(xs) == {xs[i] : i \in 1..Len(xs)}

keys(d) == [i \in 1..Len(d) |-> d[i][1]]

has_key(d, k) == \E i \in 1..Len(d) : d[i][1] = k

get(d, k) == d[CHOOSE i \in 1..Len(d) : d[i][1] = k][2]

\* a slip that hands the list itself to sorted
keep_duplicates(xs) == xs

\* set(xs) as the iterable handed to sorted: the distinct elements of xs.
\* The iteration order of a Python set is unspecified; sorted does not
\* depend on it, and the order of first occurrence stands for it here.
RECURSIVE py_set(_)
py_set(xs) ==
    IF xs = <<>> THEN <<>>
    ELSE LET front == SubSeq(xs, 1, Len(xs) - 1)
             last  == xs[Len(xs)]
         IN  IF last \in Range(front) THEN py_set(front)
             ELSE Append(py_set(front), last)

RECURSIVE insort(_, _)
insort(s, x) ==
    IF s = <<>> THEN <<x>>
    ELSE IF str_lt(x, Head(s)) THEN <<x>> \o s
    ELSE <<Head(s)>> \o insort(Tail(s), x)

\* a slip that leaves the list in the order it was given
unsorted(xs) == xs

\* sorted(xs): ascending, equal elements kept
RECURSIVE sorted(_)
sorted(xs) ==
    IF xs = <<>> THEN <<>>
    ELSE insort(sorted(SubSeq(xs, 1, Len(xs) - 1)), xs[Len(xs)])

(***************************************************************************)
(* The external commands.  Pkgs are the package names of the system; a     *)
(* pacman listing names some of them, one per line; a pactree output is    *)
(* the queried name on the first line followed by raw depender lines.      *)
(***************************************************************************)
Pkgs == {"perl", "gtk3", "qt5-base"}

\* a name, a name with blanks around it, a blank line
RawLines == Pkgs \cup {" gtk3 ", ""}

SeqsUpTo(S, n) == UNION {[1..k -> S] : k \in 0..n}

PacmanOutputs ==
    {out \in SeqsUpTo(Pkgs, Cardinality(Pkgs)) :
        \A i, j \in 1..Len(out) : i # j => out[i] # out[j]}

PactreeOutputs(pkg) ==
    {<<>>} \cup {<<pkg>> \o body : body \in SeqsUpTo(RawLines, MaxDependers)}

RECURSIVE drop_blank_head(_)
drop_blank_head(lines) ==
    IF lines # <<>> /\ strip(Head(lines)) = "" THEN drop_blank_head(Tail(lines))
    ELSE lines

RECURSIVE drop_blank_tail(_)
drop_blank_tail(lines) ==
    IF lines # <<>> /\ strip(lines[Len(lines)]) = ""
    THEN drop_blank_tail(SubSeq(lines, 1, Len(lines) - 1))
    ELSE lines

\* text.strip().split('\n') on a text given by its lines
strip_split(lines) ==
    LET kept == drop_blank_tail(drop_blank_head(lines))
    IN  IF kept = <<>> THEN <<"">>
        ELSE [i \in 1..Len(kept) |->
                 LET l == IF i = 1 THEN lstrip(kept[i]) ELSE kept[i]
                 IN  IF i = Len(kept) THEN rstrip(l) ELSE l]

(***************************************************************************)
(* Building dependency_map.                                                *)
(***************************************************************************)
\* a slip that records the edge under the depender instead of the package
append_reversed(dm, pkg, depender) ==
    IF has_key(dm, depender)
    THEN [i \in 1..Len(dm) |->
             IF dm[i][1] = depender THEN <<depender, Append(dm[i][2], pkg)>> ELSE dm[i]]
    ELSE Append(dm, <<depender, <<pkg>>>>)

\* dependency_map[pkg].append(depender) on a defaultdict(list)
append_depender(dm, pkg, depender) ==
    IF has_key(dm, pkg)
    THEN [i \in 1..Len(dm) |->
             IF dm[i][1] = pkg THEN <<pkg, Append(dm[i][2], depender)>> ELSE dm[i]]
    ELSE Append(dm, <<pkg, <<depender>>>>)

\* a slip that forgets the comparison with the queried package
keep_nonblank(depender, pkg) == depender # ""

\* if depender and depender != pkg
keep_depender(depender, pkg) == depender # "" /\ depender # pkg

RECURSIVE record_dependers(_, _, _)
record_dependers(dm, pkg, reverse_deps) ==
    IF reverse_deps = <<>> THEN dm
    ELSE LET depender == strip(Head(reverse_deps))
         IN  record_dependers(
                 IF keep_depender(depender, pkg)
                 THEN append_depender(dm, pkg, depender) ELSE dm,
                 pkg, Tail(reverse_deps))

(***************************************************************************)
(* Grouping by category.                                                   *)
(***************************************************************************)
\* a slip that keeps every recorded depender
all_recorded(dependers, explicit) == dependers

\* explicit_dependers = [d for d in dependers if d in explicit_packages]
explicit_dependers_of(dependers, explicit) ==
    SelectSeq(dependers, LAMBDA d : d \in explicit)

\* a slip that files a dependency whatever its filtered list holds
keep_always(explicit_dependers) == TRUE

\* if explicit_dependers:
keep_dependency(explicit_dependers) == explicit_dependers # <<>>

\* categories[cat][dep] = explicit_dependers on nested defaultdicts
set_item(cats, cat, dep, val) ==
    LET old == IF cat \in DOMAIN cats THEN cats[cat] ELSE <<>>
        new == IF has_key(old, dep)
               THEN [i \in 1..Len(old) |-> IF old[i][1] = dep THEN <<dep, val>> ELSE old[i]]
               ELSE Append(old, <<dep, val>>)
    IN  [c \in DOMAIN cats \cup {cat} |-> IF c = cat THEN new ELSE cats[c]]

RECURSIVE group(_, _, _)
group(cats, items, explicit) ==
    IF items = <<>> THEN cats
    ELSE LET dep == Head(items)[1]
             explicit_dependers == explicit_dependers_of(Head(items)[2], explicit)
         IN  group(IF keep_dependency(explicit_dependers)
                   THEN set_item(cats, categorize(dep), dep, explicit_dependers)
                   ELSE cats,
                   Tail(items), explicit)

(***************************************************************************)
(* Writing the report.  A line is [kind, text, n]: a section title with    *)
(* its package count, a dependency with its depender count, or a depender. *)
(* The fixed comment block that opens the file is not recorded.            *)
(***************************************************************************)
SectionLine(cat, n) == [kind |-> "section", text |-> cat, n |-> n]
DepLine(dep, n) == [kind |-> "dep", text |-> dep, n |-> n]
DependerLine(d) == [kind |-> "depender", text |-> d, n |-> 0]

\* dependers = [d for d in all_dependers if d in explicit_packages]
written_dependers(all_dependers, explicit) ==
    SelectSeq(all_dependers, LAMBDA d : d \in explicit)

\* if not dependers: continue; else the dependency line and its depender lines
dep_lines(dep, dependers) ==
    IF dependers = <<>> THEN <<>>
    ELSE <<DepLine(dep, Len(dependers))>>
         \o [i \in 1..Len(dependers) |-> DependerLine(dependers[i])]

RECURSIVE section_body(_, _, _)
section_body(entries, deps, explicit) ==
    IF deps = <<>> THEN <<>>
    ELSE LET all_dependers == sorted(py_set(get(entries, Head(deps))))
             dependers == written_dependers(all_dependers, explicit)
         IN  dep_lines(Head(deps), dependers)
             \o section_body(entries, Tail(deps), explicit)

section_lines(cats, cat, explicit) ==
    IF cat \notin DOMAIN cats \/ cats[cat] = <<>> THEN <<>>
    ELSE <<SectionLine(cat, Len(cats[cat]))>>
         \o section_body(cats[cat], sorted(keys(cats[cat])), explicit)

RECURSIVE report_lines(_, _, _)
report_lines(cats, order, explicit) ==
    IF order = <<>> THEN <<>>
    ELSE section_lines(cats, Head(order), explicit)
         \o report_lines(cats, Tail(order), explicit)

(***************************************************************************)
(* One run of the script.                                                  *)
(***************************************************************************)
Pending == {p \in DOMAIN status : status[p] = "pending"}

\* packages pactree was run for
LookedUp == {p \in DOMAIN status : status[p] \in {"raised", "nonzero", "ok"}}

\* packages whose lookup failed
Failed == {p \in DOMAIN status : status[p] \in {"raised", "nonzero"}}

RunInit ==
    /\ pc = "list"
    /\ explicit_packages = {}
    /\ status = <<>>
    /\ dependency_map = <<>>
    /\ categories = <<>>
    /\ opened = FALSE
    /\ report = <<>>
    /\ error = "none"
    /\ discarded = FALSE

\* a slip that swallows the exception and goes on with the empty output
ListFailsSwallowed ==
    /\ pc = "list"
    /\ pc' = "loop"
    /\ error' = "listing"
    /\ explicit_packages' = Range(strip_split(<<>>))
    /\ status' = [p \in Range(strip_split(<<>>)) |-> "pending"]
    /\ UNCHANGED <<dependency_map, categories, opened, report>>
    /\ UNCHANGED <<discarded, cat_vars>>

\* check_output raises: the listing cannot be obtained and the script ends
ListFails ==
    /\ pc = "list"
    /\ pc' = "aborted"
    /\ error' = "listing"
    /\ UNCHANGED <<explicit_packages, status, dependency_map, categories, opened, report>>
    /\ UNCHANGED <<discarded, cat_vars>>

ListExplicit ==
    /\ pc = "list"
    /\ \E out \in PacmanOutputs :
          /\ explicit_packages' = Range(strip_split(out))
          /\ status' = [p \in Range(strip_split(out)) |-> "pending"]
    /\ pc' = "loop"
    /\ UNCHANGED <<dependency_map, categories, opened, report, error>>
    /\ UNCHANGED <<discarded, cat_vars>>

\* if not pkg: continue
SkipEmpty(pkg) ==
    /\ pc = "loop"
    /\ pkg \in Pending
    /\ pkg = ""
    /\ status' = [status EXCEPT ![pkg] = "skipped"]
    /\ UNCHANGED <<pc, explicit_packages, dependency_map, categories, opened, report, error>>
    /\ UNCHANGED <<discarded, cat_vars>>

\* a slip that lets the exception of subprocess.run end the script
LookupRaisedPropagates(pkg) ==
    /\ pc = "loop"
    /\ pkg \in Pending
    /\ pkg # ""
    /\ status' = [status EXCEPT ![pkg] = "raised"]
    /\ pc' = "aborted"
    /\ error' = "lookup"
    /\ UNCHANGED <<explicit_packages, dependency_map, categories, opened, report>>
    /\ UNCHANGED <<discarded, cat_vars>>

\* subprocess.run raises (timeout, pactree missing): except: pass
LookupRaised(pkg) ==
    /\ pc = "loop"
    /\ pkg \in Pending
    /\ pkg # ""
    /\ status' = [status EXCEPT ![pkg] = "raised"]
    /\ UNCHANGED <<pc, explicit_packages, dependency_map, categories, opened, report, error>>
    /\ UNCHANGED <<discarded, cat_vars>>

\* result.returncode != 0
LookupNonZero(pkg) ==
    /\ pc = "loop"
    /\ pkg \in Pending
    /\ pkg # ""
    /\ status' = [status EXCEPT ![pkg] = "nonzero"]
    /\ UNCHANGED <<pc, explicit_packages, dependency_map, categories, opened, report, error>>
    /\ UNCHANGED <<discarded, cat_vars>>

LookupOk(pkg) ==
    /\ pc = "loop"
    /\ pkg \in Pending
    /\ pkg # ""
    /\ \E stdout \in PactreeOutputs(pkg) :
          LET reverse_deps == Tail(strip_split(stdout))
          IN  /\ dependency_map' = record_dependers(dependency_map, pkg, reverse_deps)
              /\ discarded' = \E i \in 1..Len(reverse_deps) :
                                  ~keep_depender(strip(reverse_deps[i]), pkg)
    /\ status' = [status EXCEPT ![pkg] = "ok"]
    /\ UNCHANGED <<pc, explicit_packages, categories, opened, report, error>>
    /\ UNCHANGED cat_vars

\* the for loop is exhausted; the grouping loop runs
Group ==
    /\ pc = "loop"
    /\ Pending = {}
    /\ categories' = group(<<>>, dependency_map, explicit_packages)
    /\ pc' = "open"
    /\ discarded' = FALSE
    /\ UNCHANGED <<explicit_packages, status, dependency_map, opened, report, error>>
    /\ UNCHANGED cat_vars

\* open(OUTPUT_FILE, 'w') raises
OpenFails ==
    /\ pc = "open"
    /\ pc' = "aborted"
    /\ error' = "write"
    /\ UNCHANGED <<explicit_packages, status, dependency_map, categories, opened, report>>
    /\ UNCHANGED <<discarded, cat_vars>>

\* the with block: the file is opened and the report written
WriteReport ==
    /\ pc = "open"
    /\ opened' = TRUE
    /\ report' = report_lines(categories, cat_order, explicit_packages)
    /\ pc' = "done"
    /\ UNCHANGED <<explicit_packages, status, dependency_map, categories, error>>
    /\ UNCHANGED <<discarded, cat_vars>>

Init == RunInit /\ name = "" /\ category = "none"

Next ==
    \/ ListFails
    \/ ListExplicit
    \/ \E pkg \in Pending : SkipEmpty(pkg)
    \/ \E pkg \in Pending : LookupRaised(pkg)
    \/ \E pkg \in Pending : LookupNonZero(pkg)
    \/ \E pkg \in Pending : LookupOk(pkg)
    \/ Group
    \/ OpenFails
    \/ WriteReport

Spec == Init /\ [][Next]_vars

(***************************************************************************)
(* categorize applied to one package name.  The names are concatenations   *)
(* of at most MaxParts fragments: every keyword of the function, some of   *)
(* them capitalised, a separator and a neutral fragment.                   *)
(***************************************************************************)
Fragments ==
    {"python", "perl", "git", "openssh", "rsync", "sudo", "which", "diffutils",
     "bluez", "pipewire", "alsa", "device-mapper", "cryptsetup", "xdg", "desktop",
     "kde", "kio", "plasma", "gtk", "qt", "gnome-keyring", "jdk", "java", "openxr",
     "e2fsprogs", "dosfstools", "mtools", "systemd", "texinfo", "hwinfo", "unzip",
     "Python", "Perl", "Git", "KDE", "-", "lib"}

RECURSIVE NamesOf(_)
NamesOf(n) ==
    IF n = 0 THEN {""}
    ELSE LET shorter == NamesOf(n - 1)
         IN  shorter \cup {a \o f : a \in shorter, f \in Fragments}

Names == NamesOf(MaxParts)

CatInit == RunInit /\ name \in Names /\ category = "none"

Categorize ==
    /\ category = "none"
    /\ category' = categorize(name)
    /\ UNCHANGED <<pc, explicit_packages, status, dependency_map, categories,
                   opened, report, error, discarded, name>>

CatNext == Categorize

CatSpec == CatInit /\ [][CatNext]_vars

(***************************************************************************)
(* Properties of the run.                                                  *)
(***************************************************************************)
\* the dependers recorded for package p
Recorded(p) == IF has_key(dependency_map, p) THEN Range(get(dependency_map, p)) ELSE {}

ReportIdx == 1..Len(report)

NoneBetween(kind, i, j) == \A k \in (i + 1)..(j - 1) : report[k].kind # kind

\* the dependency line a depender line stands under
OwnerDep(i) ==
    CHOOSE j \in 1..(i - 1) : report[j].kind = "dep" /\ NoneBetween("dep", j, i)

CatIndex(cat) == CHOOSE i \in 1..Len(cat_order) : cat_order[i] = cat

HasDuplicate(xs) == \E i, j \in 1..Len(xs) : i < j /\ xs[i] = xs[j]

\* C1: a dependency line is written only for a package of the explicit set
\* that has at least one recorded depender in the explicit set, and every
\* depender line under it names a recorded depender of the explicit set.
C1_OnlyExplicitReported ==
    \A i \in ReportIdx :
        /\ report[i].kind = "dep" =>
              /\ report[i].text \in explicit_packages
              /\ Recorded(report[i].text) \cap explicit_packages # {}
        /\ report[i].kind = "depender" =>
              /\ report[i].text \in explicit_packages
              /\ report[i].text \in Recorded(report[OwnerDep(i)].text)

\* a report was written for a dependency that also has a depender outside
\* the explicit set
C1_Witness ==
    /\ pc = "done"
    /\ \E i \in ReportIdx :
          /\ report[i].kind = "dep"
          /\ ~(Recorded(report[i].text) \subseteq explicit_packages)

\* the documented rule table: substring keywords and prefixes are compared
\* with the lowercased name, the names of rule 3 with the name as given
Rules ==
    << [cat |-> "PYTHON", sub |-> {"python"}, pre |-> {"python-"}, exact |-> {}],
       [cat |-> "PERL", sub |-> {"perl"}, pre |-> {}, exact |-> {}],
       [cat |-> "DEVELOPMENT_TOOLS", sub |-> {}, pre |-> {},
        exact |-> {"git", "openssh", "rsync", "sudo", "which", "diffutils"}],
       [cat |-> "BLUETOOTH", sub |-> {"bluez"}, pre |-> {}, exact |-> {}],
       [cat |-> "AUDIO", sub |-> {"pipewire", "alsa"}, pre |-> {}, exact |-> {}],
       [cat |-> "STORAGE", sub |-> {"device-mapper", "cryptsetup"}, pre |-> {}, exact |-> {}],
       [cat |-> "DESKTOP", sub |-> {"xdg", "desktop"}, pre |-> {}, exact |-> {}],
       [cat |-> "KDE", sub |-> {"kde", "kio", "plasma"}, pre |-> {}, exact |-> {}],
       [cat |-> "GUI_LIBS", sub |-> {"gtk", "qt"}, pre |-> {}, exact |-> {}],
       [cat |-> "SECURITY", sub |-> {"gnome-keyring"}, pre |-> {}, exact |-> {}],
       [cat |-> "JAVA", sub |-> {"jdk", "java"}, pre |-> {}, exact |-> {}],
       [cat |-> "VR", sub |-> {"openxr"}, pre |-> {}, exact |-> {}],
       [cat |-> "FILESYSTEM", sub |-> {"e2fsprogs", "dosfstools", "mtools"},
        pre |-> {}, exact |-> {}],
       [cat |-> "SYSTEM", sub |-> {"systemd"}, pre |-> {}, exact |-> {}],
       [cat |-> "SYSTEM_INFO", sub |-> {"texinfo", "hwinfo"}, pre |-> {}, exact |-> {}],
       [cat |-> "ARCHIVE", sub |-> {"unzip"}, pre |-> {}, exact |-> {}] >>

\* rule i matches the name n whose lowercase form is l
Matches(i, n, l) ==
    \/ \E k \in Rules[i].sub : contains(l, k)
    \/ \E q \in Rules[i].pre : startswith(l, q)
    \/ n \in Rules[i].exact

RuleMatches(i, n) == Matches(i, n, lower(n))

\* the rules that match n
Matching(n) == LET l == lower(n) IN {i \in 1..Len(Rules) : Matches(i, n, l)}

FirstMatch(n) ==
    LET m == Matching(n)
    IN  IF m = {} THEN "OTHER"
        ELSE Rules[CHOOSE i \in m : \A j \in m : i <= j].cat

\* C2: categorize returns one of the 17 categories for every name, and the
\* category is that of the lowest-numbered matching rule of the table, OTHER
\* when no rule matches.
C2_FirstMatchWins ==
    category # "none" =>
        /\ category \in Range(cat_order)
        /\ Cardinality(Range(cat_order)) = Len(Rules) + 1
        /\ category = FirstMatch(name)

\* a name matching rule 1 and rule 8 was classified PYTHON
C2_Witness == category = "PYTHON" /\ RuleMatches(1, name) /\ RuleMatches(8, name)

\* C3: a failed lookup (exception or non-zero exit) leaves dependency_map as
\* it was and the loop running, the failed package has no entry, and the run
\* is not ended by it: every step of the loop either takes a package off the
\* pending ones or goes on to the opening of the output file, and a run ends
\* early only on the listing or on the opening of the output file.
C3_LookupFailureAbsorbed ==
    /\ [][\A p \in DOMAIN status :
             (status[p] = "pending" /\ status'[p] \in {"raised", "nonzero"})
                 => (dependency_map' = dependency_map /\ pc' = "loop")]_vars
    /\ [][pc = "loop" =>
             \/ pc' = "open"
             \/ pc' = "loop" /\ Pending' \subseteq Pending /\ Pending' # Pending]_vars
    /\ [](\A p \in Failed : ~has_key(dependency_map, p))
    /\ [](pc = "aborted" => error \in {"listing", "write"})

\* the output file is about to be opened after one lookup failed and another
\* recorded dependers
C3_Witness == pc = "open" /\ Failed # {} /\ dependency_map # <<>>

\* C4: when the listing fails the run is aborted with no pactree lookup made
\* and the output file never opened or written.
C4_ListingFailureAborts ==
    error = "listing" =>
        /\ pc = "aborted"
        /\ LookedUp = {}
        /\ ~opened
        /\ report = <<>>

\* the listing failed
C4_Witness == error = "listing" /\ pc = "aborted"

\* C5: sections follow cat_order, dependency lines of one section are in
\* strictly ascending order, and so are the depender lines of one dependency.
C5_ReportOrdered ==
    \A i, j \in ReportIdx :
        i < j =>
            /\ (report[i].kind = "section" /\ report[j].kind = "section")
                  => CatIndex(report[i].text) < CatIndex(report[j].text)
            /\ (report[i].kind = "dep" /\ report[j].kind = "dep"
                /\ NoneBetween("section", i, j))
                  => str_lt(report[i].text, report[j].text)
            /\ (report[i].kind = "depender" /\ report[j].kind = "depender"
                /\ NoneBetween("dep", i, j))
                  => str_lt(report[i].text, report[j].text)

\* a report with two sections, a section of two dependencies recorded in
\* descending order, a dependency of two dependers recorded in descending
\* order, and a raw list naming a depender twice
C5_Witness ==
    /\ pc = "done"
    /\ Cardinality({i \in ReportIdx : report[i].kind = "section"}) >= 2
    /\ \E i, j \in ReportIdx :
          /\ i < j /\ report[i].kind = "dep" /\ report[j].kind = "dep"
          /\ NoneBetween("section", i, j)
          /\ \E a, b \in 1..Len(dependency_map) :
                a < b /\ dependency_map[a][1] = report[j].text
                      /\ dependency_map[b][1] = report[i].text
    /\ \E i \in 1..Len(dependency_map) :
          LET l == dependency_map[i][2]
          IN  Len(l) >= 2 /\ l[1] \in explicit_packages /\ l[2] \in explicit_packages
              /\ str_lt(l[2], l[1])
    /\ \E i \in 1..Len(dependency_map) : HasDuplicate(dependency_map[i][2])

\* the report as fixed by the explicit set and the set of dependers recorded
\* for each package, whatever the order of recording
Ascending(S) ==
    CHOOSE s \in [1..Cardinality(S) -> S] :
        \A i, j \in 1..Cardinality(S) : i < j => str_lt(s[i], s[j])

RECURSIVE Flatten(_)
Flatten(ss) == IF ss = <<>> THEN <<>> ELSE Head(ss) \o Flatten(Tail(ss))

ExplicitDependers(p) == Recorded(p) \cap explicit_packages

RetainedDeps(cat) ==
    {p \in Range(keys(dependency_map)) :
        ExplicitDependers(p) # {} /\ categorize(p) = cat}

CanonicalDep(p) ==
    LET ds == Ascending(ExplicitDependers(p))
    IN  <<DepLine(p, Len(ds))>> \o [i \in 1..Len(ds) |-> DependerLine(ds[i])]

CanonicalSection(cat) ==
    LET deps == Ascending(RetainedDeps(cat))
    IN  IF deps = <<>> THEN <<>>
        ELSE <<SectionLine(cat, Len(deps))>>
             \o Flatten([i \in 1..Len(deps) |-> CanonicalDep(deps[i])])

CanonicalReport ==
    Flatten([i \in 1..Len(cat_order) |-> CanonicalSection(cat_order[i])])

\* C6: the lines written are fixed by the explicit set and, for each package,
\* the set of dependers its lookup listed: the order in which the packages
\* were looked up and the order and repetition of dependers in a raw list
\* leave no trace in the report.
C6_ReportDeterminedByInputs == pc = "done" => report = CanonicalReport

\* a report was written from a map whose keys were recorded in descending
\* order and one of whose lists repeats a depender
C6_Witness ==
    /\ pc = "done"
    /\ report # <<>>
    /\ \E a, b \in 1..Len(dependency_map) :
          a < b /\ str_lt(dependency_map[b][1], dependency_map[a][1])
    /\ \E i \in 1..Len(dependency_map) :
          /\ HasDuplicate(dependency_map[i][2])
          /\ dependency_map[i][2][1] \in explicit_packages

\* C7: no list of dependency_map holds its own key or a blank name, and no
\* key has an empty list.
C7_NoSelfNoBlankNoEmpty ==
    \A i \in 1..Len(dependency_map) :
        /\ dependency_map[i][2] # <<>>
        /\ \A j \in 1..Len(dependency_map[i][2]) :
              /\ dependency_map[i][2][j] # dependency_map[i][1]
              /\ strip(dependency_map[i][2][j]) # ""

\* the last output held a blank line or the package itself, a looked-up
\* package has no entry, and another has one
C7_Witness ==
    /\ discarded
    /\ dependency_map # <<>>
    /\ \E p \in DOMAIN status : status[p] = "ok" /\ ~has_key(dependency_map, p)

\* C8 as claimed: a name and its lowercase form get the same category.
C8_CaseInsensitive == category # "none" => category = categorize(lower(name))

\* C8 as amended: a name and its lowercase form get the same category unless
\* the lowercase form is one of the names of the DEVELOPMENT_TOOLS list; then
\* the name is DEVELOPMENT_TOOLS only when written in lowercase, else OTHER.
C8_CaseInsensitiveButNameList ==
    category # "none" =>
        LET lowered == lower(name)
        IN  IF lowered \in DevelopmentTools
            THEN category = IF name = lowered THEN "DEVELOPMENT_TOOLS" ELSE "OTHER"
            ELSE category = categorize(lowered)

\* a name with a capital letter was classified by a substring rule
C8_Witness == category = "PERL" /\ name # lower(name)

\* C9: a section title is always followed by a dependency line, and a run
\* whose listing was empty, or in which no recorded depender is in the
\* explicit set, writes no line.
C9_NoEmptySection ==
    /\ \A i \in ReportIdx :
          report[i].kind = "section" =>
              i < Len(report) /\ report[i + 1].kind = "dep"
    /\ (pc = "done" /\ (explicit_packages \subseteq {""}
                        \/ \A p \in DOMAIN status : ExplicitDependers(p) = {}))
          => report = <<>>

\* a report with a section was written while a recorded dependency with no
\* explicit depender was left out
C9_Witness ==
    /\ pc = "done"
    /\ report # <<>>
    /\ \E i \in 1..Len(dependency_map) : ExplicitDependers(dependency_map[i][1]) = {}

\* the writer without its own filter and without its skip of empty lists
RECURSIVE single_filter_body(_, _)
single_filter_body(entries, deps) ==
    IF deps = <<>> THEN <<>>
    ELSE LET dependers == sorted(py_set(get(entries, Head(deps))))
         IN  <<DepLine(Head(deps), Len(dependers))>>
             \o [i \in 1..Len(dependers) |-> DependerLine(dependers[i])]
             \o single_filter_body(entries, Tail(deps))

single_filter_section(cats, cat) ==
    IF cat \notin DOMAIN cats \/ cats[cat] = <<>> THEN <<>>
    ELSE <<SectionLine(cat, Len(cats[cat]))>>
         \o single_filter_body(cats[cat], sorted(keys(cats[cat])))

single_filter_report(cats) ==
    Flatten([i \in 1..Len(cat_order) |-> single_filter_section(cats, cat_order[i])])

\* C10: the writer without its filter and skip writes the same lines, counts
\* included, as the writer of the script.
C10_SecondFilterRedundant ==
    /\ pc \in {"open", "done"} =>
          report_lines(categories, cat_order, explicit_packages)
              = single_filter_report(categories)
    /\ pc = "done" => report = single_filter_report(categories)

\* a report was written after the grouping dropped a depender outside the
\* explicit set
C10_Witness ==
    /\ pc = "done"
    /\ \E i \in ReportIdx :
          /\ report[i].kind = "dep"
          /\ report[i].n < Cardinality(Recorded(report[i].text))

====
